---- MODULE Spec2Model ----
(***************************************************************************)
(* Model of evmdump: a disassembler that reads whitespace-tolerant         *)
(* hex-encoded EVM bytecode from a byte stream and prints one instruction  *)
(* per line.  Characters are one-character strings, the input stream is a  *)
(* sequence of characters followed by the condition the source reports     *)
(* once the characters are exhausted (end of file, or an I/O failure).     *)
(***************************************************************************)
EXTENDS Integers, Sequences, FiniteSets, TLC

VARIABLES
    disassembler,   \* the Disassembler struct: input stream, offset, unknown
    pc,             \* position of the driver: "run", "done", "failed", "panicked"
    out,            \* the instructions next_instruction has returned, in order
    printed,        \* the lines written to standard output, in order
    error,          \* the kind of the error disassemble returned, "" if none
    mark            \* the stream cursor at which the latest call started

vars == <<disassembler, pc, out, printed, error, mark>>

\* ---------------------------------------------------------------- bounds

MaxLen == 5

MaxPush == 2

\* ------------------------------------------------------------ characters

is_ascii_whitespace(c) == c \in {" ", "\t", "\n", "\f", "\r"}

\* char::to_digit(16): the value of a hex digit, -1 when c is none
to_digit(c) ==
    CASE c = "0" -> 0 [] c = "1" -> 1 [] c = "2" -> 2 [] c = "3" -> 3
      [] c = "4" -> 4 [] c = "5" -> 5 [] c = "6" -> 6 [] c = "7" -> 7
      [] c = "8" -> 8 [] c = "9" -> 9
      [] c \in {"a", "A"} -> 10 [] c \in {"b", "B"} -> 11
      [] c \in {"c", "C"} -> 12 [] c \in {"d", "D"} -> 13
      [] c \in {"e", "E"} -> 14 [] c \in {"f", "F"} -> 15
      [] OTHER -> -1

\* the digit characters the {:x} formats write
LowerHexDigit(n) ==
    CASE n = 0 -> "0" [] n = 1 -> "1" [] n = 2 -> "2" [] n = 3 -> "3"
      [] n = 4 -> "4" [] n = 5 -> "5" [] n = 6 -> "6" [] n = 7 -> "7"
      [] n = 8 -> "8" [] n = 9 -> "9" [] n = 10 -> "a" [] n = 11 -> "b"
      [] n = 12 -> "c" [] n = 13 -> "d" [] n = 14 -> "e" [] n = 15 -> "f"

\* ------------------------------------------------------- integer parsing

\* a sign is taken off the front before the digits are read: '+' always,
\* '-' only for signed types (u8 and U256 are unsigned); a lone sign is
\* an invalid digit
StripSign(s) ==
    IF Len(s) > 0 /\ s[1] = "+" THEN Tail(s) ELSE s

RECURSIVE AccumulateU8(_, _)
AccumulateU8(digits, acc) ==
    IF digits = <<>> THEN [ok |-> TRUE, val |-> acc]
    ELSE LET x == to_digit(Head(digits)) IN
         IF x < 0 \/ acc * 16 + x > 255 THEN [ok |-> FALSE, val |-> 0]
         ELSE AccumulateU8(Tail(digits), acc * 16 + x)

\* u8::from_str_radix(s, 16)
u8_from_str_radix(s) ==
    IF s = <<>> \/ StripSign(s) = <<>> THEN [ok |-> FALSE, val |-> 0]
    ELSE AccumulateU8(StripSign(s), 0)

\* A U256 is its 64 hex digits (nibbles), most significant first.
U256Digits == 64

U256Zero == [i \in 1..U256Digits |-> 0]

\* result * 16 + x on 256 bits; the multiplication overflows when the top
\* nibble is not zero
RECURSIVE AccumulateU256(_, _)
AccumulateU256(digits, acc) ==
    IF digits = <<>> THEN [ok |-> TRUE, val |-> acc]
    ELSE LET x == to_digit(Head(digits)) IN
         IF x < 0 \/ acc[1] # 0 THEN [ok |-> FALSE, val |-> U256Zero]
         ELSE AccumulateU256(Tail(digits), Append(Tail(acc), x))

\* U256::from_str_radix(s, 16)
U256_from_str_radix(s) ==
    IF s = <<>> \/ StripSign(s) = <<>> THEN [ok |-> FALSE, val |-> U256Zero]
    ELSE AccumulateU256(StripSign(s), U256Zero)

\* ------------------------------------------------------------ instruction

\* An Instruction value: its variant, the variant's integer payload (0 when
\* it has none) and, for Push, the U256 value (<<>> otherwise).
Instr(v, a) == [variant |-> v, arg |-> a, value |-> <<>>]

Push(size, value) == [variant |-> "Push", arg |-> size, value |-> value]

\* usize / u8 written by {:x}: no padding, at least one digit
RECURSIVE LowerHex(_)
LowerHex(n) ==
    IF n < 16 THEN LowerHexDigit(n)
    ELSE LowerHex(n \div 16) \o LowerHexDigit(n % 16)

RECURSIVE Repeat(_, _)
Repeat(s, n) == IF n <= 0 THEN "" ELSE s \o Repeat(s, n - 1)

\* the zero padding of {:0w$x}: pad on the left up to width w, never cut
PadZero(s, w) == Repeat("0", w - Len(s)) \o s

RECURSIVE StripLeadingZeros(_)
StripLeadingZeros(v) ==
    IF Len(v) > 1 /\ v[1] = 0 THEN StripLeadingZeros(Tail(v)) ELSE v

RECURSIVE DigitsToString(_)
DigitsToString(v) ==
    IF v = <<>> THEN "" ELSE LowerHexDigit(Head(v)) \o DigitsToString(Tail(v))

\* a U256 written by {:x}: its hex digits without leading zeros
U256LowerHex(v) == DigitsToString(StripLeadingZeros(v))

\* the payload-free variants, written with write_str
Mnemonic(v) ==
    CASE
       v = "Stop" -> "stop"
    [] v = "Add" -> "add"
    [] v = "Mul" -> "mul"
    [] v = "Sub" -> "sub"
    [] v = "Div" -> "div"
    [] v = "Sdiv" -> "sdiv"
    [] v = "Mod" -> "mod"
    [] v = "Smod" -> "smod"
    [] v = "AddMod" -> "addmod"
    [] v = "MulMod" -> "mulmod"
    [] v = "Exp" -> "exp"
    [] v = "SignExtend" -> "signextend"
    [] v = "Lt" -> "lt"
    [] v = "Gt" -> "gt"
    [] v = "Slt" -> "slt"
    [] v = "Sgt" -> "sgt"
    [] v = "Eq" -> "eq"
    [] v = "IsZero" -> "iszero"
    [] v = "And" -> "and"
    [] v = "Or" -> "or"
    [] v = "Xor" -> "xor"
    [] v = "Not" -> "not"
    [] v = "Byte" -> "byte"
    [] v = "Shl" -> "shl"
    [] v = "Shr" -> "shr"
    [] v = "Sar" -> "sar"
    [] v = "Keccak256" -> "keccak256"
    [] v = "Address" -> "address"
    [] v = "Balance" -> "balance"
    [] v = "Origin" -> "origin"
    [] v = "Caller" -> "caller"
    [] v = "CallValue" -> "callvalue"
    [] v = "CallDataLoad" -> "calldataload"
    [] v = "CallDataSize" -> "calldatasize"
    [] v = "CallDataCopy" -> "calldatacopy"
    [] v = "CodeSize" -> "codesize"
    [] v = "CodeCopy" -> "codecopy"
    [] v = "GasPrice" -> "gasprice"
    [] v = "ExtCodeSize" -> "extcodesize"
    [] v = "ExtCodeCopy" -> "extcodecopy"
    [] v = "ReturnDataSize" -> "returndatasize"
    [] v = "ReturnDataCopy" -> "returndatacopy"
    [] v = "ExtCodeHash" -> "extcodehash"
    [] v = "BlockHash" -> "blockhash"
    [] v = "Coinbase" -> "coinbase"
    [] v = "Timestamp" -> "timestamp"
    [] v = "Number" -> "number"
    [] v = "Difficulty" -> "difficulty"
    [] v = "GasLimit" -> "gaslimit"
    [] v = "ChainId" -> "chainid"
    [] v = "Pop" -> "pop"
    [] v = "MLoad" -> "mload"
    [] v = "MStore" -> "mstore"
    [] v = "MStore8" -> "mstore8"
    [] v = "SLoad" -> "sload"
    [] v = "SStore" -> "sstore"
    [] v = "Jump" -> "jump"
    [] v = "JumpI" -> "jumpi"
    [] v = "GetPc" -> "getpc"
    [] v = "MSize" -> "msize"
    [] v = "Gas" -> "gas"
    [] v = "Create" -> "create"
    [] v = "Call" -> "call"
    [] v = "CallCode" -> "callcode"
    [] v = "Return" -> "return"
    [] v = "DelegateCall" -> "delegatecall"
    [] v = "Create2" -> "create2"
    [] v = "StaticCall" -> "staticcall"
    [] v = "Revert" -> "revert"
    [] v = "Invalid" -> "invalid"
    [] v = "SelfDestruct" -> "selfdestruct"

\* Display with the operand padded to size digits instead of size * 2
fmt_PadToSize(i) ==
    CASE i.variant = "JumpDest" -> "jumpdest :" \o LowerHex(i.arg)
      [] i.variant = "Push" ->
            "push" \o ToString(i.arg) \o " " \o PadZero(U256LowerHex(i.value), i.arg)
      [] i.variant = "Dup" -> "dup" \o ToString(i.arg)
      [] i.variant = "Swap" -> "swap" \o ToString(i.arg)
      [] i.variant = "Log" -> "log" \o ToString(i.arg)
      [] i.variant = "Unknown" -> "?" \o PadZero(LowerHex(i.arg), 2) \o "?"
      [] OTHER -> Mnemonic(i.variant)

\* impl Display for Instruction
fmt(i) ==
    CASE i.variant = "JumpDest" -> "jumpdest :" \o LowerHex(i.arg)
      [] i.variant = "Push" ->
            "push" \o ToString(i.arg) \o " "
                \o PadZero(U256LowerHex(i.value), (i.arg * 2) % 256)
      [] i.variant = "Dup" -> "dup" \o ToString(i.arg)
      [] i.variant = "Swap" -> "swap" \o ToString(i.arg)
      [] i.variant = "Log" -> "log" \o ToString(i.arg)
      [] i.variant = "Unknown" -> "?" \o PadZero(LowerHex(i.arg), 2) \o "?"
      [] OTHER -> Mnemonic(i.variant)
\* ---------------------------------------------------------- disassembler

\* Disassembler::new: the stream at its start, offset 0, unknown false.
\* data are the characters of the stream; ending is the error kind the source
\* reports once they are exhausted.
new(data, ending) ==
    [data |-> data, ending |-> ending, pos |-> 0, offset |-> 0, unknown |-> FALSE]

\* NextChar without the whitespace test: every character read is kept
NextChar_NoSkip(data, pos) == IF pos >= Len(data) THEN 0 ELSE pos + 1

\* the inner loop of read: the index of the first character after pos that is
\* not ASCII whitespace, 0 when read_exact fails before one is found
RECURSIVE NextChar(_, _)
NextChar(data, pos) ==
    IF pos >= Len(data) THEN 0
    ELSE IF is_ascii_whitespace(data[pos + 1]) THEN NextChar(data, pos + 1)
    ELSE pos + 1

\* the for loop of read, from index Len(buf) on
RECURSIVE Fill(_, _, _, _)
Fill(d, pos, buf, len) ==
    IF Len(buf) = len THEN [status |-> "Ok", i |-> len, pos |-> pos, buf |-> buf]
    ELSE LET p == NextChar(d.data, pos) IN
         IF p = 0
         THEN [status |-> "Err", i |-> Len(buf), pos |-> Len(d.data), buf |-> buf]
         ELSE Fill(d, p, Append(buf, d.data[p]), len)

\* read advancing the offset by one per call instead of one per byte
read_OffsetPerCall(d, len) ==
    IF len % 2 # 0
    THEN [status |-> "Panic", i |-> 0, buf |-> <<>>, kind |-> "assert", d |-> d]
    ELSE LET r == Fill(d, d.pos, <<>>, len) IN
         [status |-> r.status, i |-> r.i, buf |-> r.buf,
          kind |-> IF r.status = "Err" THEN d.ending ELSE "",
          d |-> [d EXCEPT !.offset = d.offset + 1, !.pos = r.pos]]

\* Disassembler::read on a buffer of len characters: the offset is advanced
\* first, then the buffer is filled
read(d, len) ==
    IF len % 2 # 0
    THEN [status |-> "Panic", i |-> 0, buf |-> <<>>, kind |-> "assert", d |-> d]
    ELSE LET r == Fill(d, d.pos, <<>>, len) IN
         [status |-> r.status, i |-> r.i, buf |-> r.buf,
          kind |-> IF r.status = "Err" THEN d.ending ELSE "",
          d |-> [d EXCEPT !.offset = d.offset + len \div 2, !.pos = r.pos]]

\* the rest of next_byte once read has returned r; atStart tells whether the
\* error index of r matches the pattern of the Ok(None) arm
ByteOf(r, atStart) ==
    CASE r.status = "Panic" -> [status |-> "Panic", byte |-> 0, kind |-> r.kind, d |-> r.d]
      [] r.status = "Err" /\ atStart /\ r.kind = "UnexpectedEof" ->
            [status |-> "None", byte |-> 0, kind |-> "", d |-> r.d]
      [] r.status = "Err" -> [status |-> "Err", byte |-> 0, kind |-> r.kind, d |-> r.d]
      [] OTHER ->
            LET b == u8_from_str_radix(r.buf) IN
            IF b.ok THEN [status |-> "Some", byte |-> b.val, kind |-> "", d |-> r.d]
            ELSE [status |-> "Err", byte |-> 0, kind |-> "ParseInt", d |-> r.d]

\* next_byte with Err((_, err)) in place of Err((0, err)) in the Ok(None) arm
next_byte_AnyIndex(d) == LET r == read(d, 2) IN ByteOf(r, TRUE)

\* Disassembler::next_byte
next_byte(d) == LET r == read(d, 2) IN ByteOf(r, r.i = 0)

\* next_word on a buffer of len characters
WordOf(d, size, len) ==
    IF size * 2 > 255 \/ len > U256Digits
    THEN [status |-> "Panic", value |-> U256Zero, kind |-> "overflow", d |-> d]
    ELSE LET r == read(d, len) IN
         CASE r.status = "Panic" ->
                [status |-> "Panic", value |-> U256Zero, kind |-> r.kind, d |-> r.d]
           [] r.status = "Err" ->
                [status |-> "Err", value |-> U256Zero, kind |-> r.kind, d |-> r.d]
           [] OTHER ->
                LET w == U256_from_str_radix(r.buf) IN
                IF w.ok THEN [status |-> "Ok", value |-> w.val, kind |-> "", d |-> r.d]
                ELSE [status |-> "Err", value |-> U256Zero, kind |-> "ParseInt", d |-> r.d]

\* next_word with a buffer of size characters, one per operand byte
next_word_OneCharPerByte(d, size) == WordOf(d, size, size)

\* Disassembler::next_word: the buffer is the first size * 2 of 64 characters
next_word(d, size) == WordOf(d, size, size * 2)

\* the opcodes of the match that map to a payload-free variant
SimpleVariant(op) ==
    CASE
       op = 0 -> "Stop"
    [] op = 1 -> "Add"
    [] op = 2 -> "Mul"
    [] op = 3 -> "Sub"
    [] op = 4 -> "Div"
    [] op = 5 -> "Sdiv"
    [] op = 6 -> "Mod"
    [] op = 7 -> "Smod"
    [] op = 8 -> "AddMod"
    [] op = 9 -> "MulMod"
    [] op = 10 -> "Exp"
    [] op = 11 -> "SignExtend"
    [] op = 16 -> "Lt"
    [] op = 17 -> "Gt"
    [] op = 18 -> "Slt"
    [] op = 19 -> "Sgt"
    [] op = 20 -> "Eq"
    [] op = 21 -> "IsZero"
    [] op = 22 -> "And"
    [] op = 23 -> "Or"
    [] op = 24 -> "Xor"
    [] op = 25 -> "Not"
    [] op = 26 -> "Byte"
    [] op = 27 -> "Shl"
    [] op = 28 -> "Shr"
    [] op = 29 -> "Sar"
    [] op = 32 -> "Keccak256"
    [] op = 48 -> "Address"
    [] op = 49 -> "Balance"
    [] op = 50 -> "Origin"
    [] op = 51 -> "Caller"
    [] op = 52 -> "CallValue"
    [] op = 53 -> "CallDataLoad"
    [] op = 54 -> "CallDataSize"
    [] op = 55 -> "CallDataCopy"
    [] op = 56 -> "CodeSize"
    [] op = 57 -> "CodeCopy"
    [] op = 58 -> "GasPrice"
    [] op = 59 -> "ExtCodeSize"
    [] op = 60 -> "ExtCodeCopy"
    [] op = 61 -> "ReturnDataSize"
    [] op = 62 -> "ReturnDataCopy"
    [] op = 63 -> "ExtCodeHash"
    [] op = 64 -> "BlockHash"
    [] op = 65 -> "Coinbase"
    [] op = 66 -> "Timestamp"
    [] op = 67 -> "Number"
    [] op = 68 -> "Difficulty"
    [] op = 69 -> "GasLimit"
    [] op = 70 -> "ChainId"
    [] op = 80 -> "Pop"
    [] op = 81 -> "MLoad"
    [] op = 82 -> "MStore"
    [] op = 83 -> "MStore8"
    [] op = 84 -> "SLoad"
    [] op = 85 -> "SStore"
    [] op = 86 -> "Jump"
    [] op = 87 -> "JumpI"
    [] op = 88 -> "GetPc"
    [] op = 89 -> "MSize"
    [] op = 90 -> "Gas"
    [] op = 240 -> "Create"
    [] op = 241 -> "Call"
    [] op = 242 -> "CallCode"
    [] op = 243 -> "Return"
    [] op = 244 -> "DelegateCall"
    [] op = 245 -> "Create2"
    [] op = 250 -> "StaticCall"
    [] op = 253 -> "Revert"
    [] op = 254 -> "Invalid"
    [] op = 255 -> "SelfDestruct"
      [] OTHER -> ""

Some(i, d) == [status |-> "Some", instr |-> i, kind |-> "", d |-> d]

NoInstr == Instr("", 0)

\* the match of next_instruction on the opcode byte, the decoder not yet
\* having met an unknown opcode; lastLog is the last opcode of the Log arm
DecodeWith(op, d, lastLog) ==
    CASE SimpleVariant(op) # "" -> Some(Instr(SimpleVariant(op), 0), d)
      [] op = 91 ->
            IF d.offset < 1
            THEN [status |-> "Panic", instr |-> NoInstr, kind |-> "overflow", d |-> d]
            ELSE Some(Instr("JumpDest", d.offset - 1), d)
      [] op \in 96..127 ->
            LET size == op - 95
                w == next_word(d, size) IN
            IF w.status = "Ok" THEN Some(Push(size, w.value), w.d)
            ELSE [status |-> w.status, instr |-> NoInstr, kind |-> w.kind, d |-> w.d]
      [] op \in 128..143 -> Some(Instr("Dup", op - 127), d)
      [] op \in 144..159 -> Some(Instr("Swap", op - 143), d)
      [] op \in 160..lastLog -> Some(Instr("Log", op - 160), d)
      [] OTHER -> Some(Instr("Unknown", op), [d EXCEPT !.unknown = TRUE])

\* the match with the Log arm reaching one opcode too far (0xa0..=0xa5)
Decode_LogRange(op, d) == DecodeWith(op, d, 165)

\* the match of next_instruction: the Log arm is 0xa0..=0xa4
Decode(op, d) == DecodeWith(op, d, 164)

\* next_instruction without the test of the unknown flag
next_instruction_NoFlagTest(d) ==
    LET b == next_byte(d) IN
    IF b.status # "Some"
    THEN [status |-> b.status, instr |-> NoInstr, kind |-> b.kind, d |-> b.d]
    ELSE Decode(b.byte, b.d)

\* Disassembler::next_instruction: status is "Some" (Ok(Some(instr))), "None"
\* (Ok(None)), "Err" (Err of the given kind) or "Panic"; d is the decoder
\* after the call
next_instruction(d) ==
    LET b == next_byte(d) IN
    IF b.status # "Some"
    THEN [status |-> b.status, instr |-> NoInstr, kind |-> b.kind, d |-> b.d]
    ELSE IF b.d.unknown THEN Some(Instr("Unknown", b.byte), b.d)
    ELSE Decode(b.byte, b.d)

\* ----------------------------------------------------------------- driver

\* the body of the while-let loop of disassemble: one call of
\* next_instruction and what the driver does with its result
Iteration ==
    LET r == next_instruction(disassembler) IN
    /\ disassembler' = r.d
    /\ mark' = disassembler.pos
    /\ pc' = CASE r.status = "Some" -> "run"
               [] r.status = "None" -> "done"
               [] r.status = "Err" -> "failed"
               [] OTHER -> "panicked"
    /\ error' = IF r.status = "Err" THEN r.kind ELSE error
    /\ out' = IF r.status = "Some" THEN Append(out, r.instr) ELSE out
    /\ printed' = IF r.status = "Some" THEN Append(printed, fmt(r.instr))
                  ELSE printed

\* a loop that goes on to the next instruction after an error
disassemble_SkipErrors == pc \in {"run", "failed"} /\ Iteration

\* one iteration of the while-let loop of disassemble: a returned instruction
\* is printed, Ok(None) ends the loop, the ? operator returns an error
disassemble == pc = "run" /\ Iteration

\* the whole loop as a function of the decoder: the instructions returned and
\* how the loop ended
RECURSIVE Run(_, _)
Run(d, acc) ==
    LET r == next_instruction(d) IN
    CASE r.status = "Some" -> Run(r.d, Append(acc, r.instr))
      [] r.status = "None" -> [out |-> acc, pc |-> "done", kind |-> ""]
      [] r.status = "Err" -> [out |-> acc, pc |-> "failed", kind |-> r.kind]
      [] OTHER -> [out |-> acc, pc |-> "panicked", kind |-> r.kind]

\* ------------------------------------------------------------------ inputs

Alphabet == {"0", "5", "6", "b", " ", "+", "z"}

Endings == {"UnexpectedEof", "Other"}

Strings(S, n) == UNION {[1..k -> S] : k \in 0..n}

Start(data, ending) ==
    /\ disassembler = new(data, ending)
    /\ pc = "run"
    /\ out = <<>>
    /\ printed = <<>>
    /\ error = ""
    /\ mark = 0

Init == \E data \in Strings(Alphabet, MaxLen), ending \in Endings : Start(data, ending)

\* a push opcode and its operand, whole or cut short, then a few more bytes
PushDigits == {"0", "1", "a", "F"}

PushTails == {<<>>, <<"5">>, <<"5", "b">>, <<" ", "5", " ", "B">>}

OpcodeChars(op) == <<LowerHexDigit(op \div 16), LowerHexDigit(op % 16)>>

InitPush ==
    \E size \in 1..MaxPush :
        \E operand \in Strings(PushDigits, 2 * size), rest \in PushTails :
            Start(OpcodeChars(95 + size) \o operand \o rest, "UnexpectedEof")

\* every opcode byte, in lower and in upper case, alone or followed by
\* enough zero bytes for the longest operand
UpperCase(c) ==
    CASE c = "a" -> "A" [] c = "b" -> "B" [] c = "c" -> "C"
      [] c = "d" -> "D" [] c = "e" -> "E" [] c = "f" -> "F" [] OTHER -> c

Zeros == [i \in 1..U256Digits |-> "0"]

InitTable ==
    \E op \in 0..255, rest \in {<<>>, Zeros}, upper \in BOOLEAN :
        LET cs == OpcodeChars(op) IN
        Start((IF upper THEN <<UpperCase(cs[1]), UpperCase(cs[2])>> ELSE cs) \o rest,
              "UnexpectedEof")

Next == disassemble

Spec == Init /\ [][Next]_vars

SpecPush == InitPush /\ [][Next]_vars

SpecTable == InitTable /\ [][Next]_vars
\* ------------------------------------------------------------- properties

\* the characters of s that are not ASCII whitespace, in order
NonWs(s) == SelectSeq(s, LAMBDA c : ~is_ascii_whitespace(c))

AllWs(s) == \A i \in 1..Len(s) : is_ascii_whitespace(s[i])

IsHexDigit(c) ==
    c \in {"0", "1", "2", "3", "4", "5", "6", "7", "8", "9",
           "a", "b", "c", "d", "e", "f", "A", "B", "C", "D", "E", "F"}

\* the decoded bytes an instruction takes up: its opcode and its operand
Width(i) == 1 + (IF i.variant = "Push" THEN i.arg ELSE 0)

RECURSIVE SumWidth(_)
SumWidth(is) == IF is = <<>> THEN 0 ELSE Width(Head(is)) + SumWidth(Tail(is))

\* the decoded bytes in front of the j-th returned instruction
Position(j) == SumWidth(SubSeq(out, 1, j - 1))

\* the two characters that encode the decoded byte at zero-based position p
PairAt(p) == SubSeq(NonWs(disassembler.data), 2 * p + 1, 2 * p + 2)

Terminated == pc # "run"

\* the characters read by the calls that returned an instruction
Accepted ==
    SubSeq(disassembler.data, 1, IF pc = "failed" THEN mark ELSE disassembler.pos)

\* C1: once an Unknown has been returned, every later instruction is
\* Unknown(x) with x the single decoded byte that follows (no operand is
\* read for it, whatever x is), and the unknown flag stays set.
C1_StickyUnknown ==
    \A j \in 1..Len(out) :
        (\E i \in 1..(j - 1) : out[i].variant = "Unknown") =>
            /\ out[j] = Instr("Unknown", u8_from_str_radix(PairAt(Position(j))).val)
            /\ Width(out[j]) = 1
            /\ disassembler.unknown

\* C1 witness: an Unknown was followed by a byte that is a push opcode
C1_Witness ==
    /\ Len(out) >= 2
    /\ out[1].variant = "Unknown"
    /\ out[2] = Instr("Unknown", 96)
    /\ disassembler.unknown

\* C2: every JumpDest(o) carries the zero-based position of its 0x5b byte
\* among the decoded bytes: the sum, over the instructions before it, of 1
\* plus the operand length.
C2_JumpDestOffset ==
    \A j \in 1..Len(out) :
        out[j].variant = "JumpDest" =>
            /\ out[j].arg = Position(j)
            /\ u8_from_str_radix(PairAt(out[j].arg)).val = 91

\* C2 witness: a JumpDest right after a push2, at offset 3
C2_Witness ==
    /\ Len(out) = 2
    /\ out[1].variant = "Push" /\ out[1].arg = 2
    /\ out[2] = Instr("JumpDest", 3)

\* C3: the loop ends normally exactly when the source reports end of input
\* and nothing but whitespace follows the last instruction; an end of input
\* inside a byte or an operand is an error, and every returned instruction
\* has read all of its 2 * (1 + N) hex characters.
C3_EndOfInput ==
    /\ Terminated =>
         (pc = "done" <=>
            /\ AllWs(SubSeq(disassembler.data, mark + 1, Len(disassembler.data)))
            /\ disassembler.ending = "UnexpectedEof")
    /\ 2 * SumWidth(out) = Len(NonWs(Accepted))

\* C3 witness: the input ends inside the operand of a push1
C3_Witness ==
    /\ pc = "failed" /\ error = "UnexpectedEof"
    /\ NonWs(disassembler.data) = <<"6", "0", "0">>
    /\ out = <<>>

RECURSIVE U256ToNat(_, _)
U256ToNat(v, acc) ==
    IF v = <<>> THEN acc ELSE U256ToNat(Tail(v), acc * 16 + Head(v))

\* the big-endian value of the bytes written as the hex characters cs
RECURSIVE BigEndian(_, _)
BigEndian(cs, acc) ==
    IF cs = <<>> THEN acc
    ELSE BigEndian(Tail(Tail(cs)), acc * 256 + (to_digit(cs[1]) * 16 + to_digit(cs[2])))

LowerCase(c) == IF IsHexDigit(c) THEN LowerHexDigit(to_digit(c)) ELSE c

RECURSIVE LowerString(_)
LowerString(cs) ==
    IF cs = <<>> THEN "" ELSE LowerCase(Head(cs)) \o LowerString(Tail(cs))

\* C4: a push opcode 0x5f + N followed by N hex-encoded bytes decodes to
\* Push(N, v) with v the big-endian value of the bytes, and is printed as
\* "push", N in decimal, a space and the 2 * N operand digits in lower case.
C4_PushRoundTrip ==
    Len(out) >= 1 =>
        LET size == u8_from_str_radix(PairAt(0)).val - 95
            operand == SubSeq(NonWs(disassembler.data), 3, 2 + 2 * size) IN
        /\ out[1].variant = "Push"
        /\ out[1].arg = size
        /\ Len(out[1].value) = U256Digits
        /\ U256ToNat(out[1].value, 0) = BigEndian(operand, 0)
        /\ printed[1] = "push" \o ToString(size) \o " " \o LowerString(operand)

\* C4 witness: a push2 whose operand has a leading zero byte and an
\* upper-case digit
C4_Witness ==
    /\ Len(out) >= 1
    /\ printed[1] = "push2 000f"
    /\ PairAt(2) = <<"0", "F">>

\* C5: an input and the same input without its whitespace give the same
\* results: the same instructions, the same lines, the same kind of end.
C5_WhitespaceTolerance ==
    Terminated =>
        LET r == Run(new(NonWs(disassembler.data), disassembler.ending), <<>>) IN
        /\ r.out = out
        /\ r.pc = pc
        /\ r.kind = error
        /\ printed = [i \in 1..Len(r.out) |-> fmt(r.out[i])]

\* C5 witness: whitespace between the two digits of the opcode of a push
\* that was decoded
C5_Witness ==
    /\ pc = "done"
    /\ disassembler.data = <<"6", " ", "0", "0", "0">>
    /\ printed = <<"push1 00">>

\* C6 (as claimed): a character that is neither whitespace nor a hex digit
\* is never part of a returned instruction.
C6_InvalidHexIsError ==
    \A i \in 1..Len(Accepted) :
        IsHexDigit(Accepted[i]) \/ is_ascii_whitespace(Accepted[i])

KnownOpcodes ==
    (0..11) \cup (16..29) \cup {32} \cup (48..70) \cup (80..91) \cup (96..127)
        \cup (128..164) \cup (240..245) \cup {250, 253, 254, 255}

\* C7: the first opcode byte b (decoded in the Normal state) gives a variant
\* other than Unknown and leaves the flag clear when b is a known opcode,
\* with Dup(b - 0x7f), Swap(b - 0x8f), Log(b - 0xa0) and Invalid in their
\* ranges; it gives Unknown(b) and sets the flag exactly when b is not known.
\* A call that fails returns no instruction and leaves the flag clear.
C7_OpcodeTable ==
    LET b == to_digit(PairAt(0)[1]) * 16 + to_digit(PairAt(0)[2]) IN
    /\ Len(out) >= 1 =>
         /\ (out[1].variant = "Unknown") <=> (b \notin KnownOpcodes)
         /\ out[1].variant = "Unknown" => out[1].arg = b
         /\ b \in 128..143 => out[1] = Instr("Dup", b - 127)
         /\ b \in 144..159 => out[1] = Instr("Swap", b - 143)
         /\ b \in 160..164 => out[1] = Instr("Log", b - 160)
         /\ b = 254 => out[1] = Instr("Invalid", 0)
         /\ b \in 96..127 => out[1].variant = "Push" /\ out[1].arg = b - 95
         /\ b = 91 => out[1] = Instr("JumpDest", 0)
    /\ Len(out) = 1 => (disassembler.unknown <=> (b \notin KnownOpcodes))
    /\ Len(out) = 0 => ~disassembler.unknown

\* C7 witness: the opcode after log4 is not in the table
C7_Witness ==
    /\ Len(out) = 1
    /\ out[1] = Instr("Unknown", 165)
    /\ disassembler.unknown

\* C8: after an error nothing more is returned or printed, and what was
\* returned and printed before it is the decoding of the input in front of
\* the failing instruction.
C8_ErrorsAbort ==
    /\ [](pc = "failed" =>
            LET r == Run(new(SubSeq(disassembler.data, 1, mark), "UnexpectedEof"), <<>>) IN
            /\ r.pc = "done"
            /\ r.out = out
            /\ printed = [i \in 1..Len(out) |-> fmt(out[i])]
            /\ error # "")
    /\ [][pc = "failed" => pc' = "failed" /\ out' = out /\ printed' = printed]_vars

\* C8 witness: the input ends inside the third byte, after two instructions
C8_Witness ==
    /\ pc = "failed"
    /\ Len(out) = 2
    /\ error = "UnexpectedEof"

\* C9 (as claimed): offset is the number of decoded bytes consumed so far.
C9_OffsetIsConsumed ==
    disassembler.offset
        = Len(NonWs(SubSeq(disassembler.data, 1, disassembler.pos))) \div 2

\* C10: no assertion fails and no arithmetic overflows: the driver never
\* ends in a panic, every push size is in 1..32 (so twice the size fits in a
\* u8 and in the 64-character buffer), and offset is at least 1 when a
\* JumpDest has been computed.
C10_NoPanic ==
    /\ pc # "panicked"
    /\ \A j \in 1..Len(out) :
         /\ out[j].variant = "Push" =>
              out[j].arg \in 1..32 /\ out[j].arg * 2 <= U256Digits
         /\ out[j].variant = "JumpDest" =>
              out[j].arg >= 0 /\ disassembler.offset >= out[j].arg + 1

\* C10 witness: a push32, whose operand fills the whole buffer
C10_Witness ==
    /\ Len(out) >= 1
    /\ out[1].variant = "Push"
    /\ out[1].arg = 32
    /\ disassembler.offset >= 33
====
